---- MODULE Spec2Model ----
(***************************************************************************)
(* Streak bot: the StreakManager store (streak_manager.py) and the message *)
(* handler and inactivity sweeper that use it (bot.py).                    *)
(*                                                                         *)
(* Representation of the Python values:                                    *)
(*   - a date string "YYYY-MM-DD" is the tuple <<y, m, d>> of its three    *)
(*     fields (two strings are equal iff their tuples are); a tuple whose  *)
(*     fields are no calendar day ("2023-02-30") stands for a string that  *)
(*     date.fromisoformat rejects; None is the empty tuple;                *)
(*   - _data["guilds"] is a function from guild ids to guild records;      *)
(*   - a "users" dict is the sequence of its entries in insertion order    *)
(*     (Python dicts iterate in insertion order);                          *)
(*   - a "role_rewards" key str(days) is the integer days it prints;       *)
(*   - channel, role, guild and user ids are strings; a streak_channel_id  *)
(*     of None is the string NoChannel, which is no channel's id.          *)
(***************************************************************************)
EXTENDS Integers, Sequences, FiniteSets, TLC

\* ------------------------------------------------------------------ bounds
\* Day strings offered to record_streak: BaseDate and the MaxDay days after it.
MaxDay == 3

\* ----------------------------------------------------------------- domains
Guilds == {"g1", "g2"}
Users == {"u1", "u2"}
AllUsers == Users \cup {"u3"}
Channels == {"c1", "c2"}
Roles == {"r1", "r2"}
\* Concurrent callers of the store.
Tasks == {"t1", "t2"}
\* Day thresholds offered to set_role_reward / remove_role_reward.
RewardDays == {1, 2}

None == <<>>
NoChannel == "None"
\* The UTC dates the clock passes through, in days after BaseDate (the days in
\* between pass without an event).
ClockDays == <<0, 1, 8>>
\* Thresholds typed into !addrole.
CommandDays == {0, 1, 2}
\* the days a caller of set_role_reward passes (an int, unchecked by the store)
StoreDays == {-1, 0, 1, 2}
BaseDate == <<2024, 2, 27>>
\* A string of the right shape that names no calendar day.
BadDate == <<2023, 2, 30>>

\* ------------------------------------------------- datetime.date arithmetic
IsLeap(y) == (y % 4 = 0) /\ ((y % 100 # 0) \/ (y % 400 = 0))

DaysInMonth(y, m) ==
    IF m = 2 THEN (IF IsLeap(y) THEN 29 ELSE 28)
    ELSE IF m \in {4, 6, 9, 11} THEN 30 ELSE 31

\* date.fromisoformat(s) succeeds
ParseOK(s) ==
    /\ Len(s) = 3
    /\ s[1] \in 1..9999
    /\ s[2] \in 1..12
    /\ s[3] \in 1..DaysInMonth(s[1], s[2])

DaysBeforeYear(y) ==
    (y - 1) * 365 + ((y - 1) \div 4) - ((y - 1) \div 100) + ((y - 1) \div 400)

RECURSIVE DaysBeforeMonth(_, _)
DaysBeforeMonth(y, m) ==
    IF m <= 1 THEN 0 ELSE DaysBeforeMonth(y, m - 1) + DaysInMonth(y, m - 1)

\* date.fromisoformat(s).toordinal()
ToOrdinal(s) == DaysBeforeYear(s[1]) + DaysBeforeMonth(s[1], s[2]) + s[3]

\* try: diff = (fromisoformat(curr) - fromisoformat(last)).days
\* except Exception: diff = None.  The result is <<days>> or None.
DateDiff(last, curr) ==
    IF ParseOK(last) /\ ParseOK(curr)
    THEN <<ToOrdinal(curr) - ToOrdinal(last)>>
    ELSE None

\* The calendar day after a valid day (used to enumerate inputs and to state
\* the properties; the store itself never computes it).
NextDay(s) ==
    IF s[3] < DaysInMonth(s[1], s[2]) THEN <<s[1], s[2], s[3] + 1>>
    ELSE IF s[2] < 12 THEN <<s[1], s[2] + 1, 1>>
    ELSE <<s[1] + 1, 1, 1>>

RECURSIVE DayAfter(_, _)
DayAfter(s, i) == IF i = 0 THEN s ELSE NextDay(DayAfter(s, i - 1))

ValidDates == {DayAfter(BaseDate, i) : i \in 0..MaxDay}
DateInputs == ValidDates \cup {BadDate}

\* ------------------------------------------------------------- the document
EmptyMap == [x \in {} |-> x]

NewGuild == [streak_channel_id |-> NoChannel, users |-> <<>>, role_rewards |-> EmptyMap]

NewUser(u) == [id |-> u, streak |-> 0, last_date |-> None]

Put(f, k, v) == [x \in (DOMAIN f) \cup {k} |-> IF x = k THEN v ELSE f[x]]

Drop(f, k) == [x \in (DOMAIN f) \ {k} |-> f[x]]

\* Position of user u in a users dict, 0 when absent.
UserIndex(users, u) ==
    IF \E i \in 1..Len(users) : users[i].id = u
    THEN CHOOSE i \in 1..Len(users) : users[i].id = u
    ELSE 0

\* users.setdefault(user_id, {"streak": 0, "last_date": None})
SetDefaultUser(users, u) ==
    IF UserIndex(users, u) = 0 THEN Append(users, NewUser(u)) ELSE users

\* ensure_guild: the body of its critical section.
BadEnsureGuildResets(d, g) == Put(d, g, NewGuild)

EnsureGuild(d, g) ==
    IF g \in DOMAIN d THEN d ELSE Put(d, g, NewGuild)

WithGuild(d, g, rec) == [d EXCEPT ![g] = rec]

\* ------------------------------------------------------- the streak update
\* record_streak lines 149-177 on one user's entry.
BadUpdateUserNoSameDay(user_data, current_date) ==
    LET diff == DateDiff(user_data.last_date, current_date)
        streak == IF user_data.last_date # None /\ diff = <<1>>
                  THEN user_data.streak + 1 ELSE 1
    IN  [user_data EXCEPT !.streak = streak, !.last_date = current_date]

BadUpdateUserLexical(user_data, current_date) ==
    LET last_date == user_data.last_date IN
    IF last_date = current_date THEN user_data
    ELSE LET streak ==
                 IF last_date # None
                 THEN (IF ParseOK(last_date) /\ ParseOK(current_date)
                          /\ last_date[1] = current_date[1]
                          /\ last_date[2] = current_date[2]
                          /\ current_date[3] - last_date[3] = 1
                       THEN user_data.streak + 1 ELSE 1)
                 ELSE 1
         IN  [user_data EXCEPT !.streak = streak, !.last_date = current_date]

BadUpdateUserGapCounts(user_data, current_date) ==
    LET last_date == user_data.last_date IN
    IF last_date = current_date THEN user_data
    ELSE LET diff == DateDiff(last_date, current_date)
             streak == IF last_date # None /\ diff # None /\ diff[1] >= 1
                       THEN user_data.streak + 1 ELSE 1
         IN  [user_data EXCEPT !.streak = streak, !.last_date = current_date]

UpdateUser(user_data, current_date) ==
    LET last_date == user_data.last_date IN
    IF last_date = current_date
    THEN user_data
    ELSE LET streak ==
                 IF last_date # None
                 THEN (LET diff == DateDiff(last_date, current_date)
                       IN  IF diff = <<1>> THEN user_data.streak + 1 ELSE 1)
                 ELSE 1
         IN  [user_data EXCEPT !.streak = streak, !.last_date = current_date]

\* record_streak: the critical section of lines 145-179, on an ensured guild.
BadRecordStreakDropsOthers(d, g, u, current_date) ==
    LET users == SetDefaultUser(d[g].users, u)
        i == UserIndex(users, u)
        user_data == UpdateUser(users[i], current_date)
    IN  WithGuild(d, g, [d[g] EXCEPT !.users = <<user_data>>])

RecordStreak(d, g, u, current_date) ==
    LET users == SetDefaultUser(d[g].users, u)
        i == UserIndex(users, u)
        user_data == UpdateUser(users[i], current_date)
    IN  WithGuild(d, g, [d[g] EXCEPT !.users = [users EXCEPT ![i] = user_data]])

\* remove_user_streak: the critical section of lines 191-195.
BadRemoveKeepsDate(d, g, u) ==
    LET users == d[g].users
        i == UserIndex(users, u)
    IN  IF i # 0
        THEN WithGuild(d, g, [d[g] EXCEPT !.users = [users EXCEPT ![i].streak = 0]])
        ELSE d

BadRemoveCreates(d, g, u) ==
    LET users == SetDefaultUser(d[g].users, u)
        i == UserIndex(users, u)
    IN  WithGuild(d, g, [d[g] EXCEPT !.users =
            [users EXCEPT ![i] = [@ EXCEPT !.streak = 0, !.last_date = None]]])

RemoveUserStreak(d, g, u) ==
    LET users == d[g].users
        i == UserIndex(users, u)
    IN  IF i # 0
        THEN WithGuild(d, g, [d[g] EXCEPT !.users =
                 [users EXCEPT ![i] = [@ EXCEPT !.streak = 0, !.last_date = None]]])
        ELSE d

\* A get_user_streak that reports a first day for a user it does not know.
BadGetUserStreakAbsentOne(d, g, u) ==
    LET users == d[g].users
        i == UserIndex(users, u)
    IN  IF i # 0 THEN users[i].streak ELSE 1

\* get_user_streak: the critical section of lines 254-257.
GetUserStreak(d, g, u) ==
    LET users == d[g].users
        i == UserIndex(users, u)
    IN  IF i # 0 THEN users[i].streak ELSE 0


\* get_leaderboard lines 272-276: the entries with streak > 0, in dict order.
RECURSIVE PositiveEntries(_)
PositiveEntries(users) ==
    IF users = <<>> THEN <<>>
    ELSE LET rest == PositiveEntries(Tail(users))
         IN  IF Head(users).streak > 0
             THEN <<(<<Head(users).id, Head(users).streak>>)>> \o rest
             ELSE rest

\* list.sort(key=lambda x: x[1], reverse=True): a stable sort, so entries with
\* equal keys keep their relative order. Insert x behind every entry whose key
\* is >= x's key.
BadInsertBeforeEqual(sorted, x) ==
    LET n == Cardinality({i \in 1..Len(sorted) : sorted[i][2] > x[2]})
    IN  SubSeq(sorted, 1, n) \o <<x>> \o SubSeq(sorted, n + 1, Len(sorted))

InsertDesc(sorted, x) ==
    LET n == Cardinality({i \in 1..Len(sorted) : sorted[i][2] >= x[2]})
    IN  SubSeq(sorted, 1, n) \o <<x>> \o SubSeq(sorted, n + 1, Len(sorted))

RECURSIVE SortDesc(_)
SortDesc(list) ==
    IF list = <<>> THEN <<>>
    ELSE InsertDesc(SortDesc(SubSeq(list, 1, Len(list) - 1)), list[Len(list)])

BadLeaderboardKeepsZero(d, g) ==
    SortDesc([i \in 1..Len(d[g].users) |-> <<d[g].users[i].id, d[g].users[i].streak>>])

GetLeaderboard(d, g) == SortDesc(PositiveEntries(d[g].users))

\* set_streak_channel / unset_streak_channel / get_streak_channel bodies.
SetStreakChannel(d, g, c) == WithGuild(d, g, [d[g] EXCEPT !.streak_channel_id = c])

UnsetStreakChannel(d, g) == WithGuild(d, g, [d[g] EXCEPT !.streak_channel_id = NoChannel])

GetStreakChannel(d, g) == d[g].streak_channel_id

\* set_role_reward / remove_role_reward / get_role_rewards bodies.
SetRoleReward(d, g, days, r) ==
    WithGuild(d, g, [d[g] EXCEPT !.role_rewards = Put(@, days, r)])

RemoveRoleReward(d, g, days) ==
    WithGuild(d, g, [d[g] EXCEPT !.role_rewards = Drop(@, days)])

\* k.isdigit() for k = str(days): true exactly for days >= 0.
IsDigit(days) == days >= 0

GetRoleRewards(d, g) ==
    LET rewards == d[g].role_rewards
    IN  [k \in {x \in DOMAIN rewards : IsDigit(x)} |-> rewards[k]]

\* The dict get_role_rewards returns is built by a comprehension at line 241:
\* it is not the role_rewards dict of the store.
BadResultIsStoreDict(d, g) == TRUE

ResultIsStoreDict(d, g) == FALSE

\* The file at file_path is [state, doc, tmp, fault]: state says what a reader
\* finds there, doc is the document when state is "ok", tmp is the file at
\* file_path + ".tmp" ("missing", a "partial" dump or a "complete" one; nothing
\* reads it), and fault is the condition of the file system that makes
\* the next write fail ("open": makedirs or open raises, "dump": json.dump
\* raises part-way, "replace": os.replace raises).
Faults == {"none", "open", "dump", "replace"}

NoTmp == "missing"

File(state, doc) == [state |-> state, doc |-> doc, tmp |-> NoTmp, fault |-> "none"]

\* _save_data has no except clause: what a step of it raises reaches the caller
\* of the operation.
BadSaveSwallows(file) == FALSE

SaveRaises(file) == file.fault # "none"

\* _save_data: json.dump of the whole document to the temporary file, then
\* os.replace: the file holds the document that was in memory.
BadSaveNothing(d, old) == old

BadSaveInPlace(d, old) ==
    CASE old.fault = "none" -> [old EXCEPT !.state = "ok", !.doc = d]
      [] old.fault = "open" -> old
      [] old.fault = "dump" -> [old EXCEPT !.state = "partial", !.doc = EmptyMap]
      [] old.fault = "replace" -> [old EXCEPT !.state = "ok", !.doc = d]

SaveData(d, old) ==
    CASE old.fault = "none" -> [old EXCEPT !.state = "ok", !.doc = d, !.tmp = NoTmp]
      [] old.fault = "open" -> old
      [] old.fault = "dump" -> [old EXCEPT !.tmp = "partial"]
      [] old.fault = "replace" -> [old EXCEPT !.tmp = "complete"]

\* load_data lines 55-66: json.load raises JSONDecodeError on text that is not
\* JSON and open raises OSError on a file that cannot be read, both caught; a
\* JSON object without a dict under "guilds" is replaced.
LoadData(file) == IF file.state = "ok" THEN file.doc ELSE EmptyMap

\* Not caught by "except (json.JSONDecodeError, OSError)": the TypeError of
\* `"guilds" not in self._data` when the JSON value is null, a number or a
\* boolean, and the UnicodeDecodeError of reading bytes that are not UTF-8.
LoadRaises(file) == file.state \in {"scalar", "undecodable"}


\* ---------------------------------------------------------------- the state
VARIABLES
    loaded,   \* load_data has run (main awaits it before the bot exists)
    data,     \* StreakManager._data["guilds"]
    disk,     \* the file at file_path: [state, doc, tmp, fault]
    last,     \* the last StreakManager call made from outside, or the last activity
              \* message handled: arguments, what it read, result
    hist,     \* history per (guild, user), kept for the properties only
    clock,          \* position of the UTC date in ClockDays
    guild_members,  \* per guild, the users guild.get_member finds
    guild_roles,    \* per guild, the role ids guild.get_role resolves
    member_roles,   \* per (guild, user), member.roles
    pending,        \* per (guild, user), the roles of the add_roles calls in flight
    sweep,          \* the cleanup_inactive_roles run in progress, if any
    cleanup_loop,   \* the tasks.loop object: its running loop tasks, and whether its
                    \* last start() raised RuntimeError
    task            \* per concurrent caller of the store, the call it is in

storeVars == <<loaded, data, disk>>
envVars == <<clock, guild_members, guild_roles, member_roles, pending, sweep,
            cleanup_loop>>
botVars == <<envVars, task>>
vars == <<loaded, data, disk, last, hist,
          clock, guild_members, guild_roles, member_roles, pending, sweep,
          cleanup_loop, task>>

NoOp == [op |-> "none"]

NoView == [exists |-> FALSE, streak |-> 0, last_date |-> None]

\* days: the days recorded since the user was fresh or reset, while the calls came
\* with non-decreasing valid days (mono); reset: a reset is the last change of the
\* user, and reset_prev is what it cleared.
FreshHist == [days |-> {}, mono |-> TRUE, reset |-> FALSE, reset_prev |-> NoView]

\* a <= b for two valid day strings, field by field.
DateLeq(a, b) ==
    \/ a[1] < b[1]
    \/ a[1] = b[1] /\ a[2] < b[2]
    \/ a[1] = b[1] /\ a[2] = b[2] /\ a[3] <= b[3]

HistRecord(h, T) ==
    IF h.mono /\ ParseOK(T) /\ \A p \in h.days : DateLeq(p, T)
    THEN [FreshHist EXCEPT !.days = h.days \cup {T}]
    ELSE [FreshHist EXCEPT !.mono = FALSE]

\* What a caller can see of user u before an operation.
UserView(d, g, u) ==
    IF g \in DOMAIN d /\ UserIndex(d[g].users, u) # 0
    THEN LET e == d[g].users[UserIndex(d[g].users, u)]
         IN  [exists |-> TRUE, streak |-> e.streak, last_date |-> e.last_date]
    ELSE NoView

\* failed: the members whose remove_roles call has raised in this run, kept for
\* the properties only.
IdleSweep == [pc |-> "idle", now |-> None, todo |-> {}, g |-> "", role_ids |-> {},
              keys |-> <<>>, u |-> "", roles |-> {}, failed |-> {}]

IdleTask == [pc |-> "idle", op |-> "", g |-> "", u |-> "", arg |-> None,
             pre |-> NoView, disturbed |-> FALSE, res |-> None,
             holds |-> "", parked |-> FALSE]

InitialFiles ==
    { File(st, EmptyMap) :
        st \in {"missing", "unreadable", "corrupt", "undecodable", "scalar",
                "no_guilds", "ok"} }

\* StreakManager.__init__ (lines 42-45): nothing loaded yet.
Init ==
    /\ loaded = FALSE
    /\ data = EmptyMap
    /\ disk \in InitialFiles
    /\ last = NoOp
    /\ hist = [k \in Guilds \X AllUsers |-> FreshHist]
    /\ clock = 1
    /\ guild_members = [g \in Guilds |-> Users]
    /\ guild_roles = [g \in Guilds |-> Roles]
    /\ member_roles = [k \in Guilds \X Users |-> {}]
    /\ pending = [k \in Guilds \X Users |-> {}]
    /\ sweep = IdleSweep
    /\ cleanup_loop = [tasks |-> 0, refused |-> FALSE]
    /\ task = [t \in Tasks |-> IdleTask]

\* main awaits load_data once, before the bot exists; an exception it raises
\* ends main.
load_data ==
    /\ ~loaded
    /\ last = NoOp
    /\ loaded' = ~LoadRaises(disk)
    /\ data' = IF LoadRaises(disk) THEN data ELSE LoadData(disk)
    /\ last' = [op |-> "load_data", raised |-> LoadRaises(disk)]
    /\ UNCHANGED <<disk, hist>>
    /\ UNCHANGED botVars

\* ------------------------------------ store operations, one caller at a time
set_streak_channel(g, c) ==
    /\ loaded
    /\ data' = SetStreakChannel(EnsureGuild(data, g), g, c)
    /\ disk' = SaveData(data', disk)
    /\ last' = [op |-> "set_streak_channel", g |-> g, arg |-> c,
                raised |-> SaveRaises(disk)]
    /\ UNCHANGED <<loaded, hist>>
    /\ UNCHANGED botVars

unset_streak_channel(g) ==
    /\ loaded
    /\ data' = UnsetStreakChannel(EnsureGuild(data, g), g)
    /\ disk' = SaveData(data', disk)
    /\ last' = [op |-> "unset_streak_channel", g |-> g,
                raised |-> SaveRaises(disk)]
    /\ UNCHANGED <<loaded, hist>>
    /\ UNCHANGED botVars

get_streak_channel(g) ==
    /\ loaded
    /\ data' = EnsureGuild(data, g)
    /\ last' = [op |-> "get_streak_channel", g |-> g, ret |-> GetStreakChannel(data', g)]
    /\ UNCHANGED <<loaded, disk, hist>>
    /\ UNCHANGED botVars

record_streak(g, u, current_date) ==
    /\ loaded
    /\ data' = RecordStreak(EnsureGuild(data, g), g, u, current_date)
    /\ disk' = SaveData(data', disk)
    /\ last' = [op |-> "record_streak", g |-> g, u |-> u, arg |-> current_date,
                ret |-> IF SaveRaises(disk) THEN None ELSE GetUserStreak(data', g, u),
                raised |-> SaveRaises(disk),
                pre |-> UserView(data, g, u), was_reset |-> hist[<<g, u>>].reset,
                reset_prev |-> hist[<<g, u>>].reset_prev]
    /\ hist' = [hist EXCEPT ![<<g, u>>] = HistRecord(@, current_date)]
    /\ UNCHANGED loaded
    /\ UNCHANGED botVars

remove_user_streak(g, u) ==
    /\ loaded
    /\ data' = RemoveUserStreak(EnsureGuild(data, g), g, u)
    /\ disk' = SaveData(data', disk)
    /\ last' = [op |-> "remove_user_streak", g |-> g, u |-> u,
                raised |-> SaveRaises(disk),
                pre |-> UserView(data, g, u)]
    /\ hist' = [hist EXCEPT ![<<g, u>>] =
                   IF UserView(data, g, u).exists
                   THEN [FreshHist EXCEPT !.reset = TRUE,
                                          !.reset_prev = UserView(data, g, u)]
                   ELSE @]
    /\ UNCHANGED loaded
    /\ UNCHANGED botVars

set_role_reward(g, days, r) ==
    /\ loaded
    /\ data' = SetRoleReward(EnsureGuild(data, g), g, days, r)
    /\ disk' = SaveData(data', disk)
    /\ last' = [op |-> "set_role_reward", g |-> g, arg |-> <<days, r>>,
                raised |-> SaveRaises(disk)]
    /\ UNCHANGED <<loaded, hist>>
    /\ UNCHANGED botVars

remove_role_reward(g, days) ==
    /\ loaded
    /\ data' = RemoveRoleReward(EnsureGuild(data, g), g, days)
    /\ disk' = SaveData(data', disk)
    /\ last' = [op |-> "remove_role_reward", g |-> g, arg |-> days,
                raised |-> SaveRaises(disk)]
    /\ UNCHANGED <<loaded, hist>>
    /\ UNCHANGED botVars

get_role_rewards(g) ==
    /\ loaded
    /\ data' = EnsureGuild(data, g)
    /\ last' = [op |-> "get_role_rewards", g |-> g, ret |-> GetRoleRewards(data', g)]
    /\ UNCHANGED <<loaded, disk, hist>>
    /\ UNCHANGED botVars

get_user_streak(g, u) ==
    /\ loaded
    /\ data' = EnsureGuild(data, g)
    /\ last' = [op |-> "get_user_streak", g |-> g, u |-> u,
                ret |-> GetUserStreak(data', g, u), was_reset |-> hist[<<g, u>>].reset]
    /\ UNCHANGED <<loaded, disk, hist>>
    /\ UNCHANGED botVars

get_leaderboard(g) ==
    /\ loaded
    /\ data' = EnsureGuild(data, g)
    /\ last' = [op |-> "get_leaderboard", g |-> g, ret |-> GetLeaderboard(data', g)]
    /\ UNCHANGED <<loaded, disk, hist>>
    /\ UNCHANGED botVars

\* Every store operation, over the given ids.
StoreNext(G, U, D, C, K, R) ==
    \/ load_data
    \/ \E g \in G, c \in C : set_streak_channel(g, c)
    \/ \E g \in G : unset_streak_channel(g)
    \/ \E g \in G : get_streak_channel(g)
    \/ \E g \in G, u \in U, T \in D : record_streak(g, u, T)
    \/ \E g \in G, u \in U : remove_user_streak(g, u)
    \/ \E g \in G, days \in K, r \in R : set_role_reward(g, days, r)
    \/ \E g \in G, days \in K : remove_role_reward(g, days)
    \/ \E g \in G : get_role_rewards(g)
    \/ \E g \in G, u \in U : get_user_streak(g, u)
    \/ \E g \in G : get_leaderboard(g)

\* The whole store, small ids.
Next == StoreNext(Guilds, {"u1"}, {BaseDate, NextDay(BaseDate)}, {"c1"}, {1}, {"r1"})

Spec == Init /\ [][Next]_vars

\* The caller of get_role_rewards empties the dict it was given.
clear_result ==
    /\ loaded
    /\ last.op = "get_role_rewards"
    /\ last.ret # EmptyMap
    /\ last' = [last EXCEPT !.ret = EmptyMap]
    /\ data' = IF ResultIsStoreDict(data, last.g)
               THEN WithGuild(data, last.g, [data[last.g] EXCEPT !.role_rewards = EmptyMap])
               ELSE data
    /\ UNCHANGED <<loaded, disk, hist>>
    /\ UNCHANGED botVars

\* The reward mapping of one guild, under every threshold a caller can pass.
RewardNext ==
    \/ load_data
    \/ \E days \in StoreDays, r \in Roles : set_role_reward("g1", days, r)
    \/ \E days \in StoreDays : remove_role_reward("g1", days)
    \/ get_role_rewards("g1")
    \/ clear_result

SpecReward == Init /\ [][RewardNext]_vars

\* The file system starts or stops failing writes.
fs_fault(f) ==
    /\ disk.fault # f
    /\ disk' = [disk EXCEPT !.fault = f]
    /\ UNCHANGED <<loaded, data, last, hist>>
    /\ UNCHANGED botVars

\* The store of one guild on a file system whose writes can fail.
WriteNext ==
    \/ load_data
    \/ set_streak_channel("g1", "c1")
    \/ unset_streak_channel("g1")
    \/ \E T \in {BaseDate, NextDay(BaseDate)} : record_streak("g1", "u1", T)
    \/ remove_user_streak("g1", "u1")
    \/ set_role_reward("g1", 1, "r1")
    \/ remove_role_reward("g1", 1)
    \/ get_user_streak("g1", "u1")
    \/ \E f \in Faults : fs_fault(f)

SpecWrite == Init /\ [][WriteNext]_vars

\* The streak engine: one guild, every date.
EngineNext ==
    \/ load_data
    \/ \E u \in Users, T \in DateInputs : record_streak("g1", u, T)
    \/ \E u \in Users : remove_user_streak("g1", u)
    \/ \E u \in Users : get_user_streak("g1", u)

SpecEngine == Init /\ [][EngineNext]_vars


\* The leaderboard: three users and two days in the first guild, one user of
\* another guild.
BoardNext ==
    \/ load_data
    \/ \E u \in AllUsers, T \in {BaseDate, NextDay(BaseDate)} : record_streak("g1", u, T)
    \/ \E u \in AllUsers : remove_user_streak("g1", u)
    \/ record_streak("g2", "u3", BaseDate)
    \/ \E g \in Guilds : get_leaderboard(g)

SpecBoard == Init /\ [][BoardNext]_vars

\* ------------------------------------------------- bot.py: handlers, sweeper
\* datetime.now(timezone.utc).date(), and its isoformat()
Today == DayAfter(BaseDate, ClockDays[clock])

\* on_message lines 193-198: the roles collected for add_roles.
BadRolesToAddStrict(streak_count, rewards, held, resolvable) ==
    {rewards[k] : k \in {x \in DOMAIN rewards :
        streak_count > x /\ rewards[x] \in resolvable /\ rewards[x] \notin held}}

BadRolesToAddHeld(streak_count, rewards, held, resolvable) ==
    {rewards[k] : k \in {x \in DOMAIN rewards :
        streak_count >= x /\ rewards[x] \in resolvable}}

RolesToAdd(streak_count, rewards, held, resolvable) ==
    {rewards[k] : k \in {x \in DOMAIN rewards :
        streak_count >= x /\ rewards[x] \in resolvable /\ rewards[x] \notin held}}

\* cleanup_inactive_roles line 134: days without activity that are tolerated.
InactiveDays == 7

\* cleanup_inactive_roles lines 125-134: the user counts as inactive.
BadInactiveFromSeven(last_date, now) ==
    /\ last_date # None
    /\ DateDiff(last_date, now) # None
    /\ DateDiff(last_date, now)[1] >= InactiveDays

Inactive(last_date, now) ==
    /\ last_date # None
    /\ DateDiff(last_date, now) # None
    /\ DateDiff(last_date, now)[1] > InactiveDays

\* cleanup_inactive_roles line 139.
RolesToRemove(role_ids, held, resolvable) == (role_ids \cap resolvable) \cap held

\* The for loops of cleanup_inactive_roles: past the last user of a guild the
\* run turns to the next guild id, past the last guild id it ends.
SweepOn(sw) ==
    IF sw.pc = "users" /\ sw.keys = <<>>
    THEN (IF sw.todo = {} THEN IdleSweep
          ELSE [sw EXCEPT !.pc = "guilds", !.g = "", !.role_ids = {}])
    ELSE IF sw.pc = "guilds" /\ sw.todo = {} THEN IdleSweep
    ELSE sw

tick ==
    /\ clock < Len(ClockDays)
    /\ clock' = clock + 1
    /\ UNCHANGED <<loaded, data, disk, last, hist, task, cleanup_loop,
                   guild_members, guild_roles, member_roles, pending, sweep>>

\* A role is deleted on the platform: no member holds it any longer.
role_deleted(g, r) ==
    /\ r \in guild_roles[g]
    /\ guild_roles' = [guild_roles EXCEPT ![g] = @ \ {r}]
    /\ member_roles' = [k \in DOMAIN member_roles |->
                           IF k[1] = g THEN member_roles[k] \ {r} ELSE member_roles[k]]
    /\ UNCHANGED <<loaded, data, disk, last, hist, task, cleanup_loop, clock, guild_members, pending, sweep>>

\* An administrator gives a member a role by hand.
role_given(g, u, r) ==
    /\ u \in guild_members[g]
    /\ r \in guild_roles[g]
    /\ r \notin member_roles[<<g, u>>]
    /\ member_roles' = [member_roles EXCEPT ![<<g, u>>] = @ \cup {r}]
    /\ UNCHANGED <<loaded, data, disk, last, hist, task, cleanup_loop, clock, guild_members, guild_roles,
                   pending, sweep>>

\* A member leaves the guild.
member_leave(g, u) ==
    /\ u \in guild_members[g]
    /\ guild_members' = [guild_members EXCEPT ![g] = @ \ {u}]
    /\ member_roles' = [member_roles EXCEPT ![<<g, u>>] = {}]
    /\ UNCHANGED <<loaded, data, disk, last, hist, task, cleanup_loop, clock, guild_roles, pending, sweep>>

\* "!set" in channel c by an administrator: the command (lines 216-220), then
\* the rest of on_message for the command's message (lines 165-178).
set_channel(g, c) ==
    /\ loaded
    /\ data' = EnsureGuild(SetStreakChannel(EnsureGuild(data, g), g, c), g)
    /\ disk' = SaveData(data', disk)
    /\ UNCHANGED <<loaded, last, hist, task, cleanup_loop>>
    /\ UNCHANGED botVars

\* "!addrole days role" by an administrator (lines 276-282), then the rest of
\* on_message for the command's message.
add_role(g, days, r) ==
    /\ loaded
    /\ r \in guild_roles[g]
    /\ IF days <= 0
       THEN /\ data' = EnsureGuild(data, g)
            /\ UNCHANGED disk
       ELSE /\ data' = EnsureGuild(SetRoleReward(EnsureGuild(data, g), g, days, r), g)
            /\ disk' = SaveData(data', disk)
    /\ UNCHANGED <<loaded, last, hist, task, cleanup_loop>>
    /\ UNCHANGED botVars

\* on_message for a message of user u in channel c of guild g that is no
\* command, up to the await of add_roles (lines 165-200); tagged: the content
\* starts with "streak:". When record_streak raises (line 183) the handler ends
\* there.
on_message(g, u, c, tagged) ==
    /\ loaded
    /\ LET d1 == EnsureGuild(data, g)
           channel_id == GetStreakChannel(d1, g)
       IN  IF channel_id = NoChannel \/ c # channel_id \/ ~tagged
           THEN /\ data' = d1
                /\ UNCHANGED <<disk, pending, last>>
           ELSE LET d2 == RecordStreak(d1, g, u, Today)
                    streak_count == GetUserStreak(d2, g, u)
                    rewards == GetRoleRewards(d2, g)
                    member == u \in guild_members[g]
                    held == member_roles[<<g, u>>]
                    roles_to_add ==
                        IF rewards # EmptyMap /\ member
                        THEN RolesToAdd(streak_count, rewards, held, guild_roles[g])
                        ELSE {}
                IN  /\ data' = d2
                    /\ disk' = SaveData(d2, disk)
                    /\ IF SaveRaises(disk)
                       THEN UNCHANGED <<pending, last>>
                       ELSE /\ pending' = [pending EXCEPT ![<<g, u>>] = @ \cup roles_to_add]
                            /\ last' = [op |-> "on_message", g |-> g, u |-> u,
                                        recorded |-> TRUE,
                                        streak_count |-> streak_count, rewards |-> rewards,
                                        member |-> member, held |-> held,
                                        resolvable |-> guild_roles[g],
                                        roles_to_add |-> roles_to_add]
    /\ UNCHANGED <<loaded, hist, task, cleanup_loop, clock, guild_members, guild_roles, member_roles, sweep>>

\* member.add_roles returns: the platform has added the roles (line 200).
add_roles_ok(g, u) ==
    /\ pending[<<g, u>>] # {}
    /\ u \in guild_members[g]
    /\ pending[<<g, u>>] \subseteq guild_roles[g]
    /\ member_roles' = [member_roles EXCEPT ![<<g, u>>] = @ \cup pending[<<g, u>>]]
    /\ pending' = [pending EXCEPT ![<<g, u>>] = {}]
    /\ UNCHANGED <<loaded, data, disk, last, hist, task, cleanup_loop, clock, guild_members, guild_roles, sweep>>

\* member.add_roles raises; the handler logs it (lines 201-203).
add_roles_fail(g, u) ==
    /\ pending[<<g, u>>] # {}
    /\ pending' = [pending EXCEPT ![<<g, u>>] = {}]
    /\ UNCHANGED <<loaded, data, disk, last, hist, task, cleanup_loop, clock, guild_members, guild_roles,
                   member_roles, sweep>>

\* Loop.start of discord.ext.tasks: it raises RuntimeError while the loop's task
\* is launched and not completed, else it creates the task.
BadLoopStartAgain(l) == [tasks |-> l.tasks + 1, refused |-> FALSE]

LoopStart(l) ==
    IF l.tasks > 0 THEN [l EXCEPT !.refused = TRUE]
    ELSE [tasks |-> 1, refused |-> FALSE]

\* on_ready (lines 93-101): the RuntimeError of a second start is passed over.
on_ready ==
    /\ loaded
    /\ cleanup_loop' = LoopStart(cleanup_loop)
    /\ UNCHANGED <<loaded, data, disk, last, hist, task, clock, guild_members, guild_roles,
                   member_roles, pending, sweep>>

\* cleanup_inactive_roles lines 107-110: a loop task starts a run.
sweep_start ==
    /\ loaded
    /\ cleanup_loop.tasks > 0
    /\ sweep.pc = "idle"
    /\ sweep' = SweepOn([IdleSweep EXCEPT !.pc = "guilds", !.now = Today,
                                          !.todo = DOMAIN data])
    /\ UNCHANGED <<loaded, data, disk, last, hist, task, cleanup_loop, clock, guild_members, guild_roles,
                   member_roles, pending>>

\* lines 111-123 for the next guild id: its rewards and the keys of its users
\* (the copy of line 123 is shallow: the entries are read live at line 125).
sweep_guild(g) ==
    /\ sweep.pc = "guilds"
    /\ g \in sweep.todo
    /\ LET rewards == GetRoleRewards(EnsureGuild(data, g), g)
           users == data[g].users
       IN  sweep' = SweepOn(
               IF rewards = EmptyMap
               THEN [sweep EXCEPT !.todo = @ \ {g}]
               ELSE [sweep EXCEPT !.todo = @ \ {g}, !.pc = "users", !.g = g,
                                  !.role_ids = {rewards[k] : k \in DOMAIN rewards},
                                  !.keys = [i \in 1..Len(users) |-> users[i].id]])
    /\ UNCHANGED <<loaded, data, disk, last, hist, task, cleanup_loop, clock, guild_members, guild_roles,
                   member_roles, pending>>

\* lines 124-142 for the next user, up to the await of remove_roles.
sweep_user ==
    /\ sweep.pc = "users"
    /\ sweep.keys # <<>>
    /\ LET g == sweep.g
           u == Head(sweep.keys)
           last_date == UserView(data, g, u).last_date
           member == u \in guild_members[g]
           held == member_roles[<<g, u>>]
           roles_to_remove ==
               IF Inactive(last_date, sweep.now) /\ member
               THEN RolesToRemove(sweep.role_ids, held, guild_roles[g])
               ELSE {}
       IN  sweep' = IF roles_to_remove # {}
                    THEN [sweep EXCEPT !.pc = "removing", !.u = u,
                                       !.roles = roles_to_remove]
                    ELSE SweepOn([sweep EXCEPT !.keys = Tail(@)])
    /\ UNCHANGED <<loaded, data, disk, last, hist, task, cleanup_loop, clock, guild_members, guild_roles,
                   member_roles, pending>>

\* member.remove_roles returns (line 142).
sweep_remove_ok ==
    /\ sweep.pc = "removing"
    /\ sweep.u \in guild_members[sweep.g]
    /\ member_roles' = [member_roles EXCEPT ![<<sweep.g, sweep.u>>] = @ \ sweep.roles]
    /\ sweep' = SweepOn([sweep EXCEPT !.pc = "users", !.keys = Tail(@),
                                      !.u = "", !.roles = {}])
    /\ UNCHANGED <<loaded, data, disk, last, hist, task, cleanup_loop, clock, guild_members, guild_roles,
                   pending>>

\* member.remove_roles raises; the run logs it and goes on (lines 143-144).
BadSweepRemoveFailEndsRun ==
    /\ sweep.pc = "removing"
    /\ sweep' = IdleSweep
    /\ UNCHANGED <<loaded, data, disk, last, hist, task, cleanup_loop, clock, guild_members, guild_roles,
                   member_roles, pending>>

sweep_remove_fail ==
    /\ sweep.pc = "removing"
    /\ sweep' = SweepOn([sweep EXCEPT !.pc = "users", !.keys = Tail(@),
                                      !.u = "", !.roles = {},
                                      !.failed = @ \cup {<<sweep.g, sweep.u>>}])
    /\ UNCHANGED <<loaded, data, disk, last, hist, task, cleanup_loop, clock, guild_members, guild_roles,
                   member_roles, pending>>

\* Reward grants: one guild, one member, every reward command.
GrantNext ==
    \/ load_data
    \/ tick
    \/ \E r \in Roles : role_deleted("g1", r)
    \/ member_leave("g1", "u1")
    \/ set_channel("g1", "c1")
    \/ \E days \in CommandDays, r \in Roles : add_role("g1", days, r)
    \/ \E c \in Channels, tagged \in BOOLEAN : on_message("g1", "u1", c, tagged)
    \/ add_roles_ok("g1", "u1")
    \/ add_roles_fail("g1", "u1")

SpecGrant == Init /\ [][GrantNext]_vars

\* The sweeper: one guild with a streak channel, a reward and two members, a
\* second guild that only receives messages; the ready event fires once.
SweepNext ==
    \/ load_data
    \/ tick
    \/ member_leave("g1", "u2")
    \/ set_channel("g1", "c1")
    \/ add_role("g1", 1, "r1")
    \/ role_given("g1", "u1", "r2")
    \/ \E u \in Users : on_message("g1", u, "c1", TRUE)
    \/ on_message("g2", "u1", "c1", TRUE)
    \/ \E u \in Users : add_roles_ok("g1", u)
    \/ cleanup_loop.tasks = 0 /\ on_ready
    \/ sweep_start
    \/ \E g \in Guilds : sweep_guild(g)
    \/ sweep_user
    \/ sweep_remove_ok
    \/ sweep_remove_fail

SpecSweep == Init /\ [][SweepNext]_vars

\* The sweeper where things go wrong: the reward role is deleted, a member
\* leaves, remove_roles raises; the ready event fires once.
SweepFaultNext ==
    \/ load_data
    \/ tick
    \/ member_leave("g1", "u2")
    \/ role_deleted("g1", "r1")
    \/ set_channel("g1", "c1")
    \/ add_role("g1", 1, "r1")
    \/ \E u \in Users : on_message("g1", u, "c1", TRUE)
    \/ on_message("g2", "u1", "c1", TRUE)
    \/ \E u \in Users : add_roles_ok("g1", u)
    \/ cleanup_loop.tasks = 0 /\ on_ready
    \/ sweep_start
    \/ \E g \in Guilds : sweep_guild(g)
    \/ sweep_user
    \/ sweep_remove_ok
    \/ sweep_remove_fail

SpecSweepFault == Init /\ [][SweepFaultNext]_vars

\* The sweeper loop under repeated ready events: one guild, one member.
LoopNext ==
    \/ load_data
    \/ tick
    \/ set_channel("g1", "c1")
    \/ add_role("g1", 1, "r1")
    \/ on_message("g1", "u1", "c1", TRUE)
    \/ add_roles_ok("g1", "u1")
    \/ on_ready
    \/ sweep_start
    \/ \E g \in Guilds : sweep_guild(g)
    \/ sweep_user
    \/ sweep_remove_ok
    \/ sweep_remove_fail

SpecLoop == Init /\ [][LoopNext]_vars

\* ------------------------------------- store operations, concurrent callers
\* Each "async with self._lock" block is one step: no block awaits while it
\* holds the lock. Between the blocks of one call other callers may run.
Mutators == {"set_streak_channel", "unset_streak_channel", "record_streak",
             "remove_user_streak", "set_role_reward", "remove_role_reward"}
Readers == {"get_streak_channel", "get_role_rewards", "get_user_streak",
            "get_leaderboard"}

\* The second critical section of a mutating operation.
Mutate(op, d, g, u, arg) ==
    CASE op = "set_streak_channel" -> SetStreakChannel(d, g, arg)
      [] op = "unset_streak_channel" -> UnsetStreakChannel(d, g)
      [] op = "record_streak" -> RecordStreak(d, g, u, arg)
      [] op = "remove_user_streak" -> RemoveUserStreak(d, g, u)
      [] op = "set_role_reward" -> SetRoleReward(d, g, arg[1], arg[2])
      [] op = "remove_role_reward" -> RemoveRoleReward(d, g, arg)

\* The second critical section of a reading operation: what it returns
\* (get_leaderboard sorts after the block, on its own list).
Read(op, d, g, u) ==
    CASE op = "get_streak_channel" -> GetStreakChannel(d, g)
      [] op = "get_role_rewards" -> GetRoleRewards(d, g)
      [] op = "get_user_streak" -> GetUserStreak(d, g, u)
      [] op = "get_leaderboard" -> GetLeaderboard(d, g)

\* A caller enters an operation.
begin_call(t, op, g, u, arg) ==
    /\ loaded
    /\ task[t].pc = "idle"
    /\ task' = [task EXCEPT ![t] = [IdleTask EXCEPT !.pc = "ensure", !.op = op, !.g = g,
                                        !.u = u, !.arg = arg,
                                        !.pre = UserView(data, g, u)]]
    /\ UNCHANGED <<loaded, data, disk, last, hist, envVars>>

\* await self.ensure_guild(guild_id)
ensure_guild(t) ==
    /\ task[t].pc = "ensure"
    /\ data' = EnsureGuild(data, task[t].g)
    /\ task' = [task EXCEPT ![t].pc = "body"]
    /\ UNCHANGED <<loaded, disk, last, hist, envVars>>

\* Another caller's entry for the same user is marked when this block changes
\* that user.
Disturb(tk, t) ==
    [x \in DOMAIN tk |->
        IF /\ x # t
           /\ tk[x].pc # "idle"
           /\ tk[t].op \in {"record_streak", "remove_user_streak"}
           /\ tk[x].g = tk[t].g /\ tk[x].u = tk[t].u
        THEN [tk[x] EXCEPT !.disturbed = TRUE]
        ELSE tk[x]]

\* The operation's own "async with self._lock" block.
critical_section(t) ==
    /\ task[t].pc = "body"
    /\ LET c == task[t] IN
       IF c.op \in Mutators
       THEN /\ data' = Mutate(c.op, data, c.g, c.u, c.arg)
            /\ task' = [Disturb(task, t) EXCEPT
                          ![t].pc = "save",
                          ![t].res = IF c.op = "record_streak"
                                     THEN GetUserStreak(data', c.g, c.u)
                                     ELSE None]
       ELSE /\ task' = [task EXCEPT ![t].pc = "ret", ![t].res = Read(c.op, data, c.g, c.u)]
            /\ UNCHANGED data
    /\ UNCHANGED <<loaded, disk, last, hist, envVars>>

\* await self._save_data()
save_data(t) ==
    /\ task[t].pc = "save"
    /\ disk' = SaveData(data, disk)
    /\ task' = [task EXCEPT ![t].pc = IF SaveRaises(disk) THEN "raise" ELSE "ret"]
    /\ UNCHANGED <<loaded, data, last, hist, envVars>>

\* What the operation returns if it returns now; record_streak returns
\* user_data["streak"] of the entry it updated, as it is now (line 181).
ReturnValue(c, d) ==
    IF c.op = "record_streak" THEN GetUserStreak(d, c.g, c.u)
    ELSE IF c.op \in Readers THEN c.res
    ELSE None

\* The call ends, by its return or by the exception of _save_data.
return_result(t) ==
    /\ task[t].pc \in {"ret", "raise"}
    /\ task' = [task EXCEPT ![t] = IdleTask]
    /\ UNCHANGED <<loaded, data, disk, last, hist, envVars>>

\* Two callers, one guild, two users, two days and an unparseable date.
ConcNext ==
    \/ load_data
    \/ \E t \in Tasks :
        \/ begin_call(t, "set_streak_channel", "g1", "", "c1")
        \/ \E u \in Users, T \in {BaseDate, NextDay(BaseDate), BadDate} :
               begin_call(t, "record_streak", "g1", u, T)
        \/ \E u \in Users : begin_call(t, "remove_user_streak", "g1", u, None)
        \/ begin_call(t, "get_streak_channel", "g1", "", None)
        \/ ensure_guild(t)
        \/ critical_section(t)
        \/ save_data(t)
        \/ return_result(t)

SpecConc == Init /\ [][ConcNext]_vars

\* ------------------------------------------------ the callers on the event loop
\* The handlers and the sweeper are tasks of one asyncio event loop: one task
\* runs at a time, and another one runs only while the running one is suspended
\* in an await. holds: the block the task has the lock for, "" for none;
\* parked: the task is suspended in Lock.acquire.

\* A lock whose acquire always gives the loop a turn.
BadAcquireAlwaysYields(held) == TRUE

\* asyncio.Lock.acquire of self._lock: it returns at once when the lock is
\* free and suspends the caller only when the lock is held.
AcquireYields(held) == held

\* The "async with self._lock" blocks, by the position of the task.
LockBlocks == {"ensure", "body", "save", "ensure2", "record"}

LockHolders == {t \in Tasks : task[t].holds # ""}

\* The loop gives t a step only when no other task is running.
Runs(t) == \A o \in Tasks \ {t} : task[o].pc = "idle" \/ task[o].parked

\* Entering a block: the task takes the free lock, or is suspended and takes
\* it when it is woken.
acquire(t) ==
    /\ task[t].pc \in LockBlocks
    /\ task[t].holds = ""
    /\ IF ~task[t].parked /\ AcquireYields(LockHolders # {})
       THEN task' = [task EXCEPT ![t].parked = TRUE]
       ELSE /\ LockHolders = {}
            /\ task' = [task EXCEPT ![t].holds = task[t].pc, ![t].parked = FALSE]
    /\ UNCHANGED <<loaded, data, disk, last, hist, envVars>>

\* A block that keeps the lock when its body has raised.
BadReleaseUnlessRaised(c) == IF c.pc = "raise" THEN c ELSE [c EXCEPT !.holds = ""]

\* The exit of "async with self._lock", by the end of the body or by an
\* exception of the body.
Release(c) == [c EXCEPT !.holds = ""]

\* Leaving a block.
release(t) ==
    /\ task[t].holds # ""
    /\ task[t].holds # task[t].pc
    /\ task' = [task EXCEPT ![t] = Release(task[t])]
    /\ UNCHANGED <<loaded, data, disk, last, hist, envVars>>

\* on_message for a message of user u in channel c of guild g that is no
\* command, after process_commands: the handler starts get_streak_channel.
on_message_begin(t, g, u, c, tagged) ==
    /\ loaded
    /\ task[t].pc = "idle"
    /\ task' = [task EXCEPT ![t] = [IdleTask EXCEPT !.pc = "ensure", !.op = "on_message",
                                        !.g = g, !.u = u, !.arg = <<c, tagged>>,
                                        !.pre = UserView(data, g, u)]]
    /\ UNCHANGED <<loaded, data, disk, last, hist, envVars>>

\* The reading block of get_streak_channel and the checks of the handler on
\* its result (lines 166-178); res: the channel id the handler has read.
on_message_check(t) ==
    /\ task[t].pc = "body"
    /\ task[t].op = "on_message"
    /\ LET c == task[t]
           channel_id == GetStreakChannel(data, c.g)
       IN  task' = [task EXCEPT
                      ![t].res = channel_id,
                      ![t].pc = IF channel_id = NoChannel \/ c.arg[1] # channel_id
                                   \/ ~c.arg[2]
                                THEN "ret" ELSE "ensure2"]
    /\ UNCHANGED <<loaded, data, disk, last, hist, envVars>>

\* record_streak of the handler (line 183): its ensure_guild.
on_message_ensure(t) ==
    /\ task[t].pc = "ensure2"
    /\ data' = EnsureGuild(data, task[t].g)
    /\ task' = [task EXCEPT ![t].pc = "record"]
    /\ UNCHANGED <<loaded, disk, last, hist, envVars>>

\* record_streak of the handler: its updating block.
on_message_record(t) ==
    /\ task[t].pc = "record"
    /\ data' = RecordStreak(data, task[t].g, task[t].u, Today)
    /\ task' = [task EXCEPT ![t].pc = "save"]
    /\ UNCHANGED <<loaded, disk, last, hist, envVars>>

\* One step of task t inside a call.
TaskStep(t) ==
    /\ Runs(t)
    /\ \/ acquire(t)
       \/ release(t)
       \/ /\ task[t].holds = task[t].pc
          /\ \/ ensure_guild(t)
             \/ task[t].op # "on_message" /\ critical_section(t)
             \/ on_message_check(t)
             \/ on_message_ensure(t)
             \/ on_message_record(t)
             \/ save_data(t)
       \/ task[t].holds = "" /\ return_result(t)

\* Two tasks on one guild and one user: messages, recordings, resets, the
\* channel commands, and a file system whose replace can fail.
AsyncNext ==
    \/ load_data
    \/ \E f \in {"none", "replace"} : fs_fault(f)
    \/ \E t \in Tasks :
        \/ /\ Runs(t)
           /\ \/ \E T \in {BaseDate, NextDay(BaseDate)} :
                    begin_call(t, "record_streak", "g1", "u1", T)
              \/ begin_call(t, "remove_user_streak", "g1", "u1", None)
              \/ begin_call(t, "set_streak_channel", "g1", "", "c1")
              \/ begin_call(t, "unset_streak_channel", "g1", "", None)
              \/ \E c \in Channels, tagged \in BOOLEAN :
                    on_message_begin(t, "g1", "u1", c, tagged)
        \/ TaskStep(t)

SpecAsync == Init /\ [][AsyncNext]_vars

\* The loop runs every task that is ready.
SpecAsyncFair == SpecAsync /\ \A t \in Tasks : WF_vars(TaskStep(t))

\* ------------------------------------------------------------ the properties
\* computeStreak of the specification, on day strings.
ExpectedStreak(n, D, T) ==
    IF T = D THEN n
    ELSE IF D # None /\ ParseOK(D) /\ ParseOK(T) /\ T = NextDay(D) THEN n + 1
    ELSE 1

\* C1: record_streak on a user in state (n, D) with date T stores and returns
\* n when T = D, n + 1 when T is the day after D, and 1 in every other case (no
\* previous date, a gap, T before D, a date that cannot be parsed).
C1_RecordComputesStreak ==
    last.op = "record_streak" =>
        LET want == ExpectedStreak(last.pre.streak, last.pre.last_date, last.arg)
            now == UserView(data, last.g, last.u)
        IN  /\ last.ret = want
            /\ now.exists /\ now.streak = want

\* A record over the end of February in a leap year, on a streak of at least 2.
C1_Witness ==
    /\ last.op = "record_streak"
    /\ last.pre.last_date = <<2024, 2, 29>>
    /\ last.arg = <<2024, 3, 1>>
    /\ last.ret >= 3

\* C2: a record_streak that directly follows a record_streak for the same guild,
\* user and date returns the same streak and leaves the user's streak and
\* last_date as the first call left them.
C2_SameDayIdempotent ==
    [][ ( /\ last.op = "record_streak" /\ last'.op = "record_streak"
          /\ last'.g = last.g /\ last'.u = last.u /\ last'.arg = last.arg )
        => ( /\ last'.ret = last.ret
             /\ UserView(data', last.g, last.u) = UserView(data, last.g, last.u) )
      ]_vars

\* A second record on the day the user already holds, on a streak of 2 or more
\* and on a day string that cannot be parsed.
C2_Witness ==
    /\ last.op = "record_streak"
    /\ last.pre.last_date = last.arg
    /\ last.ret = last.pre.streak
    /\ last.ret >= 2

RECURSIVE RunLength(_, _)
\* Number of consecutive calendar days of S that end at day d.
RunLength(S, d) ==
    IF \E p \in S : NextDay(p) = d
    THEN 1 + RunLength(S, CHOOSE p \in S : NextDay(p) = d)
    ELSE 1

LatestDay(S) == CHOOSE d \in S : \A p \in S : DateLeq(p, d)

\* C3: for a fresh user and record_streak calls with non-decreasing days, the
\* stored streak is the length of the run of consecutive days ending at the
\* latest recorded day.
C3_StreakIsRunLength ==
    \A k \in DOMAIN hist :
        (hist[k].mono /\ hist[k].days # {}) =>
            LET now == UserView(data, k[1], k[2])
            IN  /\ now.exists
                /\ now.last_date = LatestDay(hist[k].days)
                /\ now.streak = RunLength(hist[k].days, now.last_date)

\* A day was skipped and the user has recorded two consecutive days since.
C3_Witness ==
    \E k \in DOMAIN hist :
        /\ hist[k].mono
        /\ BaseDate \in hist[k].days
        /\ NextDay(BaseDate) \notin hist[k].days
        /\ UserView(data, k[1], k[2]).streak = 2

\* C4: after remove_user_streak on a user that has a record, get_user_streak
\* returns 0 and the next record_streak returns 1, whatever its date.
C4_ResetMakesFresh ==
    /\ (last.op = "get_user_streak" /\ last.was_reset) => last.ret = 0
    /\ (last.op = "record_streak" /\ last.was_reset) => last.ret = 1

\* The first record after a reset of a streak of 2 or more, on the day after the
\* last activity before the reset.
C4_Witness ==
    /\ last.op = "record_streak"
    /\ last.was_reset
    /\ last.reset_prev.streak >= 2
    /\ last.arg = NextDay(last.reset_prev.last_date)
    /\ last.ret = 1

Range(f) == {f[i] : i \in DOMAIN f}

\* C6: get_leaderboard returns exactly the guild's users with streak > 0, each
\* once with the current streak, by non-increasing streak, equal streaks in the
\* order the records were inserted.
C6_Leaderboard ==
    last.op = "get_leaderboard" =>
        LET lb == last.ret
            users == data[last.g].users
        IN  /\ Range(lb) = {<<users[i].id, users[i].streak>> :
                               i \in {j \in 1..Len(users) : users[j].streak > 0}}
            /\ \A i, j \in 1..Len(lb) : i < j => lb[i][1] # lb[j][1]
            /\ \A i, j \in 1..Len(lb) : i < j => lb[i][2] >= lb[j][2]
            /\ \A i, j \in 1..Len(lb) :
                   (i < j /\ lb[i][2] = lb[j][2]) =>
                       UserIndex(users, lb[i][1]) < UserIndex(users, lb[j][1])

\* Three users listed, two of them tied behind a higher streak inserted between
\* them, a user of the guild left out, and the other guild has a streak too.
C6_Witness ==
    /\ last.op = "get_leaderboard"
    /\ last.g = "g1"
    /\ Len(last.ret) = 2
    /\ last.ret[1][2] = last.ret[2][2]
    /\ UserIndex(data["g1"].users, last.ret[1][1]) = 1
    /\ Len(data["g1"].users) = 3
    /\ data["g1"].users[2].streak = 0
    /\ "g2" \in DOMAIN data /\ GetUserStreak(data, "g2", "u3") > 0

\* C10: write-through. Once a store operation has returned, the file holds the
\* document that is in memory.
C10_WriteThrough ==
    (loaded /\ last.op \notin {"none", "load_data"}) =>
        (disk.state = "ok" /\ disk.doc = data)


\* resolveGrants of the specification.
ResolveGrants(streak, rewards, currentRoles) ==
    {rewards[d] : d \in {k \in DOMAIN rewards : streak >= k}} \ currentRoles

\* C7 as claimed: the roles passed to add_roles for a member are
\* resolveGrants(streak, rewards, member.roles).
C7_GrantsAsClaimed ==
    (last.op = "on_message" /\ last.member) =>
        last.roles_to_add = ResolveGrants(last.streak_count, last.rewards, last.held)

\* C7 as amended: the roles passed to add_roles are the roles of
\* resolveGrants(streak, rewards, member.roles) that the guild still resolves
\* (a reward role deleted from the guild is skipped), and none when the author
\* is not found as a member.
C7_GrantsResolvable ==
    last.op = "on_message" =>
        last.roles_to_add =
            IF last.member
            THEN ResolveGrants(last.streak_count, last.rewards, last.held)
                     \cap last.resolvable
            ELSE {}

\* Two thresholds fire for a streak of 2; r1 is held already, so only r2 is
\* passed to add_roles.
C7_Witness ==
    /\ last.op = "on_message"
    /\ last.streak_count = 2
    /\ last.rewards = Put(Put(EmptyMap, 1, "r1"), 2, "r2")
    /\ last.held = {"r1"}
    /\ last.roles_to_add = {"r2"}

\* today - D > 7 days, by counting calendar days from D.
GapOverWeek(D, today) ==
    /\ D # None
    /\ ParseOK(D)
    /\ DateLeq(D, today)
    /\ \A i \in 0..InactiveDays : DayAfter(D, i) # today

\* C8: the step of a sweeper run that handles a user of a guild with rewards
\* asks the platform to remove exactly the guild's reward roles the member holds
\* when the user's last_date is set and more than 7 days before the run's
\* today, and nothing otherwise.
C8_SweepRevokes ==
    [][ (sweep.pc = "users" /\ sweep' # sweep) =>
          LET g == sweep.g
              u == Head(sweep.keys)
              revoked == IF sweep'.pc = "removing" THEN sweep'.roles ELSE {}
          IN  /\ sweep.role_ids # {}
              /\ revoked =
                   IF /\ GapOverWeek(UserView(data, g, u).last_date, sweep.now)
                      /\ u \in guild_members[g]
                   THEN sweep.role_ids \cap member_roles[<<g, u>>]
                   ELSE {}
      ]_vars

\* A member last active 8 days before the run holds the reward role r1 and the
\* role r2 that is no reward: the run asks to remove r1 only.
C8_Witness ==
    /\ sweep.pc = "removing"
    /\ sweep.roles = {"r1"}
    /\ member_roles[<<sweep.g, sweep.u>>] = {"r1", "r2"}
    /\ UserView(data, sweep.g, sweep.u).last_date = BaseDate
    /\ sweep.now = DayAfter(BaseDate, 8)


UserRecordsOf(d) ==
    UNION {{d[g].users[i] : i \in 1..Len(d[g].users)} : g \in DOMAIN d}

\* C5: from an empty store, in every state of every interleaving of store
\* operations, each user record has streak >= 1 if its last_date is set and
\* streak = 0 if its last_date is None.
C5_StreakMatchesDate ==
    \A e \in UserRecordsOf(data) \cup UserRecordsOf(disk.doc) :
        /\ e.last_date # None => e.streak >= 1
        /\ e.last_date = None => e.streak = 0

\* A reset of a streak of 2 has just run its critical section while the other
\* caller is inside a record_streak for the same user.
C5_Witness ==
    \E t, o \in Tasks :
        /\ t # o
        /\ task[t].op = "remove_user_streak" /\ task[t].pc = "save"
        /\ task[t].pre.streak = 2
        /\ UserView(data, task[t].g, task[t].u) =
               [exists |-> TRUE, streak |-> 0, last_date |-> None]
        /\ task[o].op = "record_streak" /\ task[o].pc = "body"
        /\ task[o].g = task[t].g /\ task[o].u = task[t].u

\* C9: a record_streak call whose user no concurrent call changes leaves that
\* user with the streak and last_date the call produces when run alone on the
\* user's state at the call, and returns that streak, whatever the other caller
\* does for other users between the call's steps.
C9_RecordsIndependent ==
    \A t \in Tasks :
        LET c == task[t] IN
        (c.op = "record_streak" /\ c.pc \in {"save", "ret"} /\ ~c.disturbed) =>
            LET want == ExpectedStreak(c.pre.streak, c.pre.last_date, c.arg)
            IN  /\ UserView(data, c.g, c.u) =
                       [exists |-> TRUE, streak |-> want, last_date |-> c.arg]
                /\ c.pc = "ret" => ReturnValue(c, data) = want

\* Two record_streak calls for different users of one guild overlap, both past
\* their update, one of them an increment.
C9_Witness ==
    /\ task["t1"].op = "record_streak" /\ task["t2"].op = "record_streak"
    /\ task["t1"].pc = "ret" /\ task["t2"].pc = "save"
    /\ task["t1"].g = task["t2"].g /\ task["t1"].u # task["t2"].u
    /\ ~task["t1"].disturbed /\ ~task["t2"].disturbed
    /\ task["t1"].pre.streak = 1
    /\ GetUserStreak(data, task["t1"].g, task["t1"].u) = 2
    /\ disk.doc # data


\* What a later read shows of the mutation of the call recorded in l, on the
\* document d.
MutationSeen(l, d) ==
    CASE l.op = "set_streak_channel" -> GetStreakChannel(d, l.g) = l.arg
      [] l.op = "unset_streak_channel" -> GetStreakChannel(d, l.g) = NoChannel
      [] l.op = "record_streak" ->
            /\ UserView(d, l.g, l.u).last_date = l.arg
            /\ GetUserStreak(d, l.g, l.u) =
                   ExpectedStreak(l.pre.streak, l.pre.last_date, l.arg)
      [] l.op = "remove_user_streak" ->
            l.pre.exists => UserView(d, l.g, l.u) =
                                [exists |-> TRUE, streak |-> 0, last_date |-> None]
      [] l.op = "set_role_reward" ->
            /\ l.arg[1] \in DOMAIN GetRoleRewards(d, l.g)
            /\ GetRoleRewards(d, l.g)[l.arg[1]] = l.arg[2]
      [] l.op = "remove_role_reward" -> l.arg \notin DOMAIN GetRoleRewards(d, l.g)

\* C11: a mutating store operation whose durable write fails ends in an error
\* for its caller, and the mutation it made in memory is kept: reads see it.
C11_WriteFailureSurfaced ==
    [][(last'.op \in Mutators /\ disk.fault # "none" /\ disk'.fault = disk.fault)
           => (last'.raised /\ MutationSeen(last', data'))]_vars

\* A record_streak that took the streak to 2 has raised; the file still holds
\* the streak of 1.
C11_Witness ==
    /\ last.op = "record_streak" /\ last.raised
    /\ last.pre.streak = 1
    /\ GetUserStreak(data, last.g, last.u) = 2
    /\ disk.state = "ok" /\ "g1" \in DOMAIN disk.doc
    /\ GetUserStreak(disk.doc, last.g, last.u) = 1

\* C12: whenever what a reader finds at file_path changes, it becomes the whole
\* document that is in memory at that step; a write that fails before or at the
\* replace step leaves the file as it was.
C12_AtomicReplace ==
    [][(disk'.state # disk.state \/ disk'.doc # disk.doc)
           => (disk'.state = "ok" /\ disk'.doc = data')]_vars

\* json.dump has failed part-way into the temporary file while the file holds
\* an earlier document that differs from the one in memory.
C12_Witness ==
    /\ disk.tmp = "partial"
    /\ disk.state = "ok" /\ disk.doc # EmptyMap
    /\ disk.doc # data

\* C13 as claimed: load_data never raises, and on a file that is missing,
\* unreadable, not JSON or without a mapping under "guilds" the store starts
\* with the empty document.
C13_LoadNeverFails ==
    last.op = "load_data" =>
        /\ ~last.raised
        /\ loaded
        /\ disk.state # "ok" => data = EmptyMap


\* C14: in a sweeper run, the step for one user (whether the member is gone, a
\* reward role no longer resolves, nothing is to be removed, or remove_roles
\* has raised) is followed by the next user of the guild, past the last user by
\* the next guild of the run, and the run ends only past the last guild.
C14_SweepGoesOn ==
    [][(sweep.pc \in {"users", "removing"} /\ sweep' # sweep /\ sweep'.pc # "removing")
           => LET rest == Tail(sweep.keys) IN
              /\ rest # <<>> =>
                     /\ sweep'.pc = "users" /\ sweep'.keys = rest
                     /\ sweep'.g = sweep.g /\ sweep'.role_ids = sweep.role_ids
                     /\ sweep'.todo = sweep.todo /\ sweep'.now = sweep.now
              /\ (rest = <<>> /\ sweep.todo # {}) =>
                     /\ sweep'.pc = "guilds"
                     /\ sweep'.todo = sweep.todo /\ sweep'.now = sweep.now
              /\ (rest = <<>> /\ sweep.todo = {}) => sweep'.pc = "idle"]_vars

\* remove_roles has raised for u1 and the run is at the next user, u2, who has
\* left the guild, while the reward role is deleted and another guild is still
\* to come.
C14_Witness ==
    /\ sweep.pc = "users"
    /\ sweep.failed = {<<"g1", "u1">>}
    /\ sweep.keys = <<"u2">>
    /\ "u2" \notin guild_members["g1"]
    /\ "r1" \notin guild_roles["g1"]
    /\ sweep.todo = {"g2"}


\* C15: however often the ready event fires, the sweeper has at most one loop
\* task and a run in progress belongs to that one task: a start attempt while
\* the task is running adds none.
C15_OneSweeperLoop ==
    /\ cleanup_loop.tasks <= 1
    /\ sweep.pc # "idle" => cleanup_loop.tasks = 1

\* A ready event has fired again while a run was removing a member's roles: its
\* start() raised, and the run is still the only one.
C15_Witness ==
    /\ cleanup_loop.refused
    /\ cleanup_loop.tasks = 1
    /\ sweep.pc = "removing"


\* C16 as claimed: every threshold key of every guild's role_rewards is a
\* strictly positive integer, whatever set_role_reward and remove_role_reward
\* calls were made.
C16_ThresholdsPositive ==
    \A g \in DOMAIN data : \A k \in DOMAIN data[g].role_rewards : k > 0

\* What get_role_rewards(g) returns on document d, {} for a guild not yet there.
RewardsOf(d, g) == IF g \in DOMAIN d THEN GetRoleRewards(d, g) ELSE EmptyMap

SameExcept(before, after, k) ==
    /\ DOMAIN before \ {k} = DOMAIN after \ {k}
    /\ \A x \in DOMAIN before \ {k} : after[x] = before[x]

\* The steps of C17, for set_role_reward with a threshold in D.
RewardStep(D) ==
    LET g == last'.g
        before == RewardsOf(data, g)
        after == RewardsOf(data', g)
    IN  /\ last'.op = "set_role_reward" =>
               /\ last'.arg[1] \in D =>
                      /\ last'.arg[1] \in DOMAIN after
                      /\ after[last'.arg[1]] = last'.arg[2]
               /\ SameExcept(before, after, last'.arg[1])
        /\ last'.op = "remove_role_reward" =>
               /\ ~last'.raised
               /\ last'.arg \notin DOMAIN after
               /\ SameExcept(before, after, last'.arg)
               /\ last'.arg \notin DOMAIN before => after = before
        /\ (last.op = "get_role_rewards" /\ last'.op = "get_role_rewards"
                /\ last'.ret # last.ret /\ last'.g = last.g /\ g \in DOMAIN data) =>
               data' = data

Touches(op, field) ==
    CASE field = "streak_channel_id" -> op \in {"set_streak_channel", "unset_streak_channel"}
      [] field = "users" -> op \in {"record_streak", "remove_user_streak"}
      [] field = "role_rewards" -> op \in {"set_role_reward", "remove_role_reward"}

\* C18: a store operation naming guild g adds a record for g if there is none,
\* with null channel, no users and no rewards apart from what the operation
\* itself writes; on a guild that has a record it changes nothing but the field
\* it is about (a read changes nothing); no guild is removed and no other
\* guild's record changes.
C18_GuildRecords ==
    [][loaded =>
          LET g == last'.g
              op == last'.op
          IN  /\ DOMAIN data' = DOMAIN data \cup {g}
              /\ \A x \in DOMAIN data \ {g} : data'[x] = data[x]
              /\ g \notin DOMAIN data =>
                     /\ ~Touches(op, "streak_channel_id") =>
                            data'[g].streak_channel_id = NoChannel
                     /\ ~Touches(op, "role_rewards") => data'[g].role_rewards = EmptyMap
                     /\ ~Touches(op, "users") => data'[g].users = <<>>
                     /\ Len(data'[g].users) <= 1
                     /\ op \in Readers => data'[g] = NewGuild
              /\ g \in DOMAIN data =>
                     /\ ~Touches(op, "streak_channel_id") =>
                            data'[g].streak_channel_id = data[g].streak_channel_id
                     /\ ~Touches(op, "role_rewards") =>
                            data'[g].role_rewards = data[g].role_rewards
                     /\ ~Touches(op, "users") => data'[g].users = data[g].users]_vars

\* A read has just created the record of g2, zero-valued, while g1 keeps its
\* channel, its user and its reward.
C18_Witness ==
    /\ last.op = "get_user_streak" /\ last.g = "g2"
    /\ DOMAIN data = {"g1", "g2"}
    /\ data["g2"] = NewGuild
    /\ data["g1"].streak_channel_id = "c1"
    /\ Len(data["g1"].users) = 1
    /\ data["g1"].role_rewards # EmptyMap
    /\ disk.doc # data

\* C19: remove_user_streak for a user without a record in the guild leaves the
\* guild's users mapping as it was: no record is created, none is changed.
C19_ResetAbsentUserNoOp ==
    [][(loaded /\ last'.op = "remove_user_streak"
            /\ ~UserView(data, last'.g, last'.u).exists)
           => data'[last'.g].users =
                  (IF last'.g \in DOMAIN data THEN data[last'.g].users ELSE <<>>)]_vars

\* A reset of u3, who has no record, has run in a guild where u1 has a streak of
\* 2 and u2 a streak of 1.
C19_Witness ==
    /\ last.op = "remove_user_streak" /\ last.u = "u3" /\ ~last.pre.exists
    /\ "g1" \in DOMAIN data
    /\ Len(data["g1"].users) = 2
    /\ GetUserStreak(data, "g1", "u1") = 2
    /\ GetUserStreak(data, "g1", "u2") = 1

\* C20 as claimed: after a record_streak or a remove_user_streak for (guild,
\* user) the guild has a record for the user.
C20_RecordAfterFirstTouch ==
    last.op \in {"record_streak", "remove_user_streak"} =>
        UserView(data, last.g, last.u).exists

\* C21: a read operation (get_streak_channel, get_role_rewards,
\* get_user_streak, get_leaderboard) leaves the channel, the users and the
\* reward map of every guild record that existed before it as they were, gives
\* a guild record it creates no user, and get_user_streak answers 0 for a user
\* without a record.
C21_ReadsLeaveRecords ==
    [][(loaded /\ last'.op \in Readers) =>
          /\ \A g \in DOMAIN data :
                /\ g \in DOMAIN data'
                /\ data'[g].streak_channel_id = data[g].streak_channel_id
                /\ data'[g].users = data[g].users
                /\ data'[g].role_rewards = data[g].role_rewards
          /\ \A g \in DOMAIN data' \ DOMAIN data : data'[g].users = <<>>
          /\ disk' = disk
          /\ (last'.op = "get_user_streak" /\ ~UserView(data, last'.g, last'.u).exists)
                => last'.ret = 0]_vars

\* A get_user_streak has answered 0 for a user without a record, in a guild
\* whose record holds a user, a channel and a reward.
C21_Witness ==
    /\ last.op = "get_user_streak"
    /\ last.ret = 0
    /\ ~UserView(data, last.g, last.u).exists
    /\ \E g \in DOMAIN data :
          /\ data[g].users # <<>>
          /\ data[g].streak_channel_id # NoChannel
          /\ data[g].role_rewards # EmptyMap

UsersKept(d, e) ==
    /\ \A g \in DOMAIN d : g \in DOMAIN e /\ e[g].users = d[g].users
    /\ \A g \in DOMAIN e \ DOMAIN d : e[g].users = <<>>

\* Task t takes a step of its own.
OwnStep(t) ==
    <<task'[t].pc, task'[t].holds, task'[t].parked>>
        # <<task[t].pc, task[t].holds, task[t].parked>>

C24_RevokesOnlyInactive ==
    [][(sweep.pc = "removing" /\ sweep' # sweep /\ member_roles' # member_roles) =>
          Inactive(UserView(data, sweep.g, sweep.u).last_date, Today)]_vars

\* C25: on a loop that runs every ready task, a store operation or handler
\* that has started comes to its end, by its return or by the exception of a
\* failed save, and a lock that is held is released, whatever the other task
\* starts.
C25_OperationsComplete ==
    \A t \in Tasks :
        /\ (task[t].pc # "idle") ~> (task[t].pc = "idle")
        /\ (task[t].holds # "") ~> (task[t].holds = "")

\* The save of a mutating operation has failed in its block and the task still
\* holds the lock it took for the block.
C25_Witness ==
    \E t \in Tasks :
        /\ task[t].op \in Mutators
        /\ task[t].pc = "raise"
        /\ task[t].holds = "save"
        /\ disk.fault = "replace"

====
